---- MODULE Spec2Model ----
(***************************************************************************)
(* Energy-based GAN losses (torchgan/losses/energybased.py).               *)
(*                                                                         *)
(* The model follows one single-threaded trainer that calls train_ops of   *)
(* EnergyBasedGeneratorLoss ("gen"), EnergyBasedPullingAwayTerm ("pt") and *)
(* EnergyBasedDiscriminatorLoss ("dis") in any order on one generator and  *)
(* one discriminator.  Every train_ops call is followed statement by       *)
(* statement (pc), so that the value of discriminator.embeddings during    *)
(* the delegated base train-step and the order of the optimizer calls are  *)
(* part of the state.  EnergyBasedDiscriminatorLoss.forward is modelled as *)
(* an operator over integer tensors and exercised by SpecForward.          *)
(***************************************************************************)
EXTENDS Integers, Sequences, FiniteSets

\* Largest scalar loss value a train-step or an override returns.
MaxLoss == 1
\* Largest batch (tensor length) fed to forward.
MaxLen == 2
\* Largest energy value of a tensor element (the smallest is -1).
MaxVal == 2
\* Largest margin a loss is constructed with.
MaxMargin == 2

VARIABLES
    isAE,        \* isinstance(discriminator, AutoEncodingDiscriminator)
    embeddings,  \* discriminator.embeddings
    label_type,  \* generator.label_type
    override,    \* per loss: self.override_train_ops is not None
    pc,          \* position of the trainer inside the current train_ops
    cur,         \* the loss whose train_ops runs (or ran last)
    args,        \* positional arguments train_ops received
    orig_value,  \* the local orig_value: <<>> while unbound, <<v>> once bound
    ip,          \* index of the next step of the delegated / own train-step
    trace,       \* steps the current call has performed so far
    loss,        \* the local loss returned by the base train-step
    outcome,     \* how the last call ended
    ovArgs,      \* positional arguments the override received
    ovCalls,     \* number of times the current call invoked the override
    ovRet,       \* value the override returned
    entryEmb,    \* discriminator.embeddings when the current call was entered
    setattrs,    \* number of setattr(discriminator, "embeddings", ..) of the call
    baseRaised,  \* some delegated base train-step has raised so far
    dx,          \* forward: discriminator output on real data
    dgz,         \* forward: discriminator output on generated data
    margin,      \* self.margin
    reduction,   \* self.reduction
    fwdOut       \* result of the last forward(dx, dgz)

trainVars == <<pc, cur, args, orig_value, ip, trace, loss, outcome, ovArgs,
               ovCalls, ovRet, entryEmb, setattrs>>
modelVars == <<isAE, label_type, override>>
fwdVars == <<dx, dgz, margin, reduction, fwdOut>>
vars == <<isAE, embeddings, label_type, override, pc, cur, args, orig_value,
          ip, trace, loss, outcome, ovArgs, ovCalls, ovRet, entryEmb, setattrs,
          baseRaised, dx, dgz, margin, reduction, fwdOut>>

Losses == {"gen", "pt", "dis"}
LabelTypes == {"none", "required"}
Devices == {"cpu", "cuda"}
BatchSizes == {"bs1", "bs2"}
Labels == {"None", "labels"}
LossValues == 0..MaxLoss

\* Positional arguments of the generator-side train_ops:
\* (generator, discriminator, optimizer_generator, device, batch_size, labels)
GeneratorArgs ==
    {<<"G", "D", "optG", d, b, l>> : d \in Devices, b \in BatchSizes, l \in Labels}

\* Positional arguments of the discriminator-side train_ops:
\* (generator, discriminator, optimizer_discriminator, real_inputs, device,
\*  batch_size, labels)
DiscriminatorArgs ==
    {<<"G", "D", "optD", "real", d, b, l>> :
        d \in Devices, b \in BatchSizes, l \in Labels}

NoOutcome == [kind |-> "none", loss |-> 0, error |-> "none"]
Returned(v) == [kind |-> "return", loss |-> v, error |-> "none"]
Raised(e) == [kind |-> "raise", loss |-> 0, error |-> e]

ErrAutoEncoder == "EBGAN PT requires the Discriminator to be a AutoEncoder"
ErrLabels == "EBGAN PT supports models which donot require labels"
ErrEmbeddings == "EBGAN PT requires the embeddings for loss computation"
ErrBase == "error raised inside the train-step"

\* Steps of GeneratorLoss.train_ops, the generic generator train-step.
GenBaseSteps ==
    <<"zero_grad", "noise", "gen_forward", "disc_forward", "forward",
      "backward", "step">>

\* Steps of DiscriminatorLoss.train_ops, the generic discriminator train-step.
DisBaseSteps ==
    <<"zero_grad", "disc_real", "noise", "gen_forward", "disc_fake", "forward",
      "backward", "step">>

PTStepsStepFirst ==
    <<"noise", "zero_grad", "gen_forward", "disc_forward", "forward",
      "step", "backward">>

\* Steps of EnergyBasedPullingAwayTerm.train_ops after its checks.
PTSteps ==
    <<"noise", "zero_grad", "gen_forward", "disc_forward", "forward",
      "backward", "step">>

\* Entry of a train_ops call: fresh locals, the arguments bound.
Enter(l, a) ==
    /\ pc = "idle"
    /\ cur' = l
    /\ args' = a
    /\ orig_value' = <<>>
    /\ ip' = 0
    /\ trace' = <<>>
    /\ loss' = 0
    /\ outcome' = NoOutcome
    /\ ovArgs' = <<>>
    /\ ovCalls' = 0
    /\ ovRet' = 0
    /\ entryEmb' = embeddings
    /\ setattrs' = 0

----------------------------------------------------------------------------
(* EnergyBasedGeneratorLoss.train_ops                                      *)

GenTrainOps(a) ==
    /\ Enter("gen", a)
    /\ pc' = IF override["gen"] THEN "override" ELSE "snapshot"
    /\ UNCHANGED <<modelVars, embeddings, baseRaised, fwdVars>>

GenOverride(v) ==
    /\ pc = "override" /\ cur = "gen"
    /\ ovArgs' = <<args[1], args[2], args[3], args[4], args[5], args[6]>>
    /\ ovCalls' = ovCalls + 1
    /\ ovRet' = v
    /\ outcome' = Returned(v)
    /\ pc' = "idle"
    /\ UNCHANGED <<modelVars, embeddings, baseRaised, fwdVars, cur, args,
                   orig_value, ip, trace, loss, entryEmb, setattrs>>

GenSnapshotAfterSet ==
    /\ pc = "snapshot" /\ cur = "gen"
    /\ IF isAE
       THEN /\ embeddings' = FALSE
            /\ orig_value' = <<FALSE>>
            /\ setattrs' = setattrs + 1
       ELSE UNCHANGED <<orig_value, embeddings, setattrs>>
    /\ pc' = "base"
    /\ ip' = 1
    /\ UNCHANGED <<modelVars, baseRaised, fwdVars, cur, args, trace, loss,
                   outcome, ovArgs, ovCalls, ovRet, entryEmb>>

GenSnapshot ==
    /\ pc = "snapshot" /\ cur = "gen"
    /\ IF isAE
       THEN /\ orig_value' = <<embeddings>>
            /\ embeddings' = FALSE
            /\ setattrs' = setattrs + 1
       ELSE UNCHANGED <<orig_value, embeddings, setattrs>>
    /\ pc' = "base"
    /\ ip' = 1
    /\ UNCHANGED <<modelVars, baseRaised, fwdVars, cur, args, trace, loss,
                   outcome, ovArgs, ovCalls, ovRet, entryEmb>>

GenBaseStep ==
    /\ pc = "base" /\ cur = "gen"
    /\ ip <= Len(GenBaseSteps)
    /\ trace' = Append(trace, GenBaseSteps[ip])
    /\ ip' = ip + 1
    /\ UNCHANGED <<modelVars, embeddings, baseRaised, fwdVars, pc, cur, args,
                   orig_value, loss, outcome, ovArgs, ovCalls, ovRet, entryEmb,
                   setattrs>>

\* The base train-step raises at step ip; nothing in train_ops catches it.
GenBaseRaise ==
    /\ pc = "base" /\ cur = "gen"
    /\ ip <= Len(GenBaseSteps)
    /\ outcome' = Raised(ErrBase)
    /\ baseRaised' = TRUE
    /\ pc' = "idle"
    /\ UNCHANGED <<modelVars, embeddings, fwdVars, cur, args, orig_value, ip,
                   trace, loss, ovArgs, ovCalls, ovRet, entryEmb, setattrs>>

GenBaseReturn(v) ==
    /\ pc = "base" /\ cur = "gen"
    /\ ip = Len(GenBaseSteps) + 1
    /\ loss' = v
    /\ pc' = "restore"
    /\ UNCHANGED <<modelVars, embeddings, baseRaised, fwdVars, cur, args,
                   orig_value, ip, trace, outcome, ovArgs, ovCalls, ovRet,
                   entryEmb, setattrs>>

GenRestoreTrue ==
    /\ pc = "restore" /\ cur = "gen"
    /\ IF isAE
       THEN /\ embeddings' = TRUE
            /\ setattrs' = setattrs + 1
       ELSE UNCHANGED <<embeddings, setattrs>>
    /\ outcome' = Returned(loss)
    /\ pc' = "idle"
    /\ UNCHANGED <<modelVars, baseRaised, fwdVars, cur, args, orig_value, ip,
                   trace, loss, ovArgs, ovCalls, ovRet, entryEmb>>

GenRestore ==
    /\ pc = "restore" /\ cur = "gen"
    /\ IF isAE
       THEN /\ embeddings' = orig_value[1]
            /\ setattrs' = setattrs + 1
       ELSE UNCHANGED <<embeddings, setattrs>>
    /\ outcome' = Returned(loss)
    /\ pc' = "idle"
    /\ UNCHANGED <<modelVars, baseRaised, fwdVars, cur, args, orig_value, ip,
                   trace, loss, ovArgs, ovCalls, ovRet, entryEmb>>

----------------------------------------------------------------------------
(* EnergyBasedPullingAwayTerm.train_ops                                    *)

PTTrainOpsIgnoreOverride(a) ==
    /\ Enter("pt", a)
    /\ pc' = "check"
    /\ UNCHANGED <<modelVars, embeddings, baseRaised, fwdVars>>

PTTrainOps(a) ==
    /\ Enter("pt", a)
    /\ pc' = IF override["pt"] THEN "override" ELSE "check"
    /\ UNCHANGED <<modelVars, embeddings, baseRaised, fwdVars>>

PTOverride(v) ==
    /\ pc = "override" /\ cur = "pt"
    /\ ovArgs' = <<args[1], args[2], args[3], args[4], args[5], args[6]>>
    /\ ovCalls' = ovCalls + 1
    /\ ovRet' = v
    /\ outcome' = Returned(v)
    /\ pc' = "idle"
    /\ UNCHANGED <<modelVars, embeddings, baseRaised, fwdVars, cur, args,
                   orig_value, ip, trace, loss, entryEmb, setattrs>>

PTCheckNoEmbeddings ==
    /\ pc = "check" /\ cur = "pt"
    /\ trace' = Append(trace, "checks")
    /\ IF ~isAE
       THEN outcome' = Raised(ErrAutoEncoder) /\ pc' = "idle" /\ ip' = ip
       ELSE IF label_type # "none"
       THEN outcome' = Raised(ErrLabels) /\ pc' = "idle" /\ ip' = ip
       ELSE outcome' = outcome /\ pc' = "body" /\ ip' = 1
    /\ UNCHANGED <<modelVars, embeddings, baseRaised, fwdVars, cur, args,
                   orig_value, loss, ovArgs, ovCalls, ovRet, entryEmb,
                   setattrs>>

PTCheck ==
    /\ pc = "check" /\ cur = "pt"
    /\ trace' = Append(trace, "checks")
    /\ IF ~isAE
       THEN outcome' = Raised(ErrAutoEncoder) /\ pc' = "idle" /\ ip' = ip
       ELSE IF label_type # "none"
       THEN outcome' = Raised(ErrLabels) /\ pc' = "idle" /\ ip' = ip
       ELSE IF ~embeddings
       THEN outcome' = Raised(ErrEmbeddings) /\ pc' = "idle" /\ ip' = ip
       ELSE outcome' = outcome /\ pc' = "body" /\ ip' = 1
    /\ UNCHANGED <<modelVars, embeddings, baseRaised, fwdVars, cur, args,
                   orig_value, loss, ovArgs, ovCalls, ovRet, entryEmb,
                   setattrs>>

PTStep ==
    /\ pc = "body" /\ cur = "pt"
    /\ ip <= Len(PTSteps)
    /\ trace' = Append(trace, PTSteps[ip])
    /\ ip' = ip + 1
    /\ UNCHANGED <<modelVars, embeddings, baseRaised, fwdVars, pc, cur, args,
                   orig_value, loss, outcome, ovArgs, ovCalls, ovRet, entryEmb,
                   setattrs>>

\* A collaborator (generator, discriminator, optimizer, autograd) raises at
\* step ip; nothing in train_ops catches it.
PTBodyRaise ==
    /\ pc = "body" /\ cur = "pt"
    /\ ip <= Len(PTSteps)
    /\ outcome' = Raised(ErrBase)
    /\ pc' = "idle"
    /\ UNCHANGED <<modelVars, embeddings, baseRaised, fwdVars, cur, args,
                   orig_value, ip, trace, loss, ovArgs, ovCalls, ovRet,
                   entryEmb, setattrs>>

PTReturn(v) ==
    /\ pc = "body" /\ cur = "pt"
    /\ ip = Len(PTSteps) + 1
    /\ trace' = Append(trace, "return")
    /\ loss' = v
    /\ outcome' = Returned(v)
    /\ pc' = "idle"
    /\ UNCHANGED <<modelVars, embeddings, baseRaised, fwdVars, cur, args,
                   orig_value, ip, ovArgs, ovCalls, ovRet, entryEmb, setattrs>>

----------------------------------------------------------------------------
(* EnergyBasedDiscriminatorLoss.train_ops                                  *)

DisTrainOps(a) ==
    /\ Enter("dis", a)
    /\ pc' = IF override["dis"] THEN "override" ELSE "snapshot"
    /\ UNCHANGED <<modelVars, embeddings, baseRaised, fwdVars>>

\* The override is handed self first, and no batch_size.
DisOverride(v) ==
    /\ pc = "override" /\ cur = "dis"
    /\ ovArgs' = <<"self", args[1], args[2], args[3], args[4], args[5], args[7]>>
    /\ ovCalls' = ovCalls + 1
    /\ ovRet' = v
    /\ outcome' = Returned(v)
    /\ pc' = "idle"
    /\ UNCHANGED <<modelVars, embeddings, baseRaised, fwdVars, cur, args,
                   orig_value, ip, trace, loss, entryEmb, setattrs>>

DisSnapshotNoDisable ==
    /\ pc = "snapshot" /\ cur = "dis"
    /\ IF isAE
       THEN /\ orig_value' = <<embeddings>>
            /\ UNCHANGED <<embeddings, setattrs>>
       ELSE UNCHANGED <<orig_value, embeddings, setattrs>>
    /\ pc' = "base"
    /\ ip' = 1
    /\ UNCHANGED <<modelVars, baseRaised, fwdVars, cur, args, trace, loss,
                   outcome, ovArgs, ovCalls, ovRet, entryEmb>>

DisSnapshot ==
    /\ pc = "snapshot" /\ cur = "dis"
    /\ IF isAE
       THEN /\ orig_value' = <<embeddings>>
            /\ embeddings' = FALSE
            /\ setattrs' = setattrs + 1
       ELSE UNCHANGED <<orig_value, embeddings, setattrs>>
    /\ pc' = "base"
    /\ ip' = 1
    /\ UNCHANGED <<modelVars, baseRaised, fwdVars, cur, args, trace, loss,
                   outcome, ovArgs, ovCalls, ovRet, entryEmb>>

DisBaseStep ==
    /\ pc = "base" /\ cur = "dis"
    /\ ip <= Len(DisBaseSteps)
    /\ trace' = Append(trace, DisBaseSteps[ip])
    /\ ip' = ip + 1
    /\ UNCHANGED <<modelVars, embeddings, baseRaised, fwdVars, pc, cur, args,
                   orig_value, loss, outcome, ovArgs, ovCalls, ovRet, entryEmb,
                   setattrs>>

\* The base train-step raises at step ip; nothing in train_ops catches it.
DisBaseRaise ==
    /\ pc = "base" /\ cur = "dis"
    /\ ip <= Len(DisBaseSteps)
    /\ outcome' = Raised(ErrBase)
    /\ baseRaised' = TRUE
    /\ pc' = "idle"
    /\ UNCHANGED <<modelVars, embeddings, fwdVars, cur, args, orig_value, ip,
                   trace, loss, ovArgs, ovCalls, ovRet, entryEmb, setattrs>>

DisBaseReturn(v) ==
    /\ pc = "base" /\ cur = "dis"
    /\ ip = Len(DisBaseSteps) + 1
    /\ loss' = v
    /\ pc' = "restore"
    /\ UNCHANGED <<modelVars, embeddings, baseRaised, fwdVars, cur, args,
                   orig_value, ip, trace, outcome, ovArgs, ovCalls, ovRet,
                   entryEmb, setattrs>>

DisRestoreSkipped ==
    /\ pc = "restore" /\ cur = "dis"
    /\ UNCHANGED <<embeddings, setattrs>>
    /\ outcome' = Returned(loss)
    /\ pc' = "idle"
    /\ UNCHANGED <<modelVars, baseRaised, fwdVars, cur, args, orig_value, ip,
                   trace, loss, ovArgs, ovCalls, ovRet, entryEmb>>

DisRestore ==
    /\ pc = "restore" /\ cur = "dis"
    /\ IF isAE
       THEN /\ embeddings' = orig_value[1]
            /\ setattrs' = setattrs + 1
       ELSE UNCHANGED <<embeddings, setattrs>>
    /\ outcome' = Returned(loss)
    /\ pc' = "idle"
    /\ UNCHANGED <<modelVars, baseRaised, fwdVars, cur, args, orig_value, ip,
                   trace, loss, ovArgs, ovCalls, ovRet, entryEmb>>

----------------------------------------------------------------------------
(* EnergyBasedDiscriminatorLoss.forward                                    *)

Tensors == UNION {[1..n -> -1..MaxVal] : n \in 1..MaxLen}
Reductions == {"none", "mean", "sum"}
Unset == [kind |-> "unset", elems |-> <<>>, num |-> 0, den |-> 1]

RECURSIVE SumSeq(_)
SumSeq(s) == IF s = <<>> THEN 0 ELSE Head(s) + SumSeq(Tail(s))

relu(x) == IF x > 0 THEN x ELSE 0

\* A reduced value is the exact fraction num / den; an unreduced one is elems.
reduce(x, red) ==
    IF red = "mean"
    THEN [kind |-> "scalar", elems |-> <<>>, num |-> SumSeq(x), den |-> Len(x)]
    ELSE IF red = "sum"
    THEN [kind |-> "scalar", elems |-> <<>>, num |-> SumSeq(x), den |-> 1]
    ELSE [kind |-> "tensor", elems |-> x, num |-> 0, den |-> 1]

energy_based_discriminator_loss(x, y, m, red) ==
    reduce([i \in 1..Len(x) |-> x[i] + relu((0 - y[i]) + m)], red)

forwardSwapped(x, y) ==
    energy_based_discriminator_loss(y, x, margin, reduction)

forward(x, y) ==
    energy_based_discriminator_loss(x, y, margin, reduction)

ForwardCall ==
    /\ fwdOut = Unset
    /\ fwdOut' = forward(dx, dgz)
    /\ UNCHANGED <<modelVars, embeddings, baseRaised, trainVars, dx, dgz,
                   margin, reduction>>

----------------------------------------------------------------------------
(* Specifications                                                          *)

TrainIdle ==
    /\ pc = "idle"
    /\ cur = "none"
    /\ args = <<>>
    /\ orig_value = <<>>
    /\ ip = 0
    /\ trace = <<>>
    /\ loss = 0
    /\ outcome = NoOutcome
    /\ ovArgs = <<>>
    /\ ovCalls = 0
    /\ ovRet = 0
    /\ entryEmb = embeddings
    /\ setattrs = 0
    /\ baseRaised = FALSE

Init ==
    /\ isAE \in BOOLEAN
    /\ embeddings \in BOOLEAN
    /\ label_type \in LabelTypes
    /\ override \in [Losses -> BOOLEAN]
    /\ TrainIdle
    /\ dx = <<>>
    /\ dgz = <<>>
    /\ margin = 0
    /\ reduction = "mean"
    /\ fwdOut = Unset

Next ==
    \/ \E a \in GeneratorArgs : GenTrainOps(a)
    \/ \E v \in LossValues : GenOverride(v)
    \/ GenSnapshot
    \/ GenBaseStep
    \/ GenBaseRaise
    \/ \E v \in LossValues : GenBaseReturn(v)
    \/ GenRestore
    \/ \E a \in GeneratorArgs : PTTrainOps(a)
    \/ \E v \in LossValues : PTOverride(v)
    \/ PTCheck
    \/ PTStep
    \/ PTBodyRaise
    \/ \E v \in LossValues : PTReturn(v)
    \/ \E a \in DiscriminatorArgs : DisTrainOps(a)
    \/ \E v \in LossValues : DisOverride(v)
    \/ DisSnapshot
    \/ DisBaseStep
    \/ DisBaseRaise
    \/ \E v \in LossValues : DisBaseReturn(v)
    \/ DisRestore

Spec == Init /\ [][Next]_vars

\* A training run on an autoencoding discriminator whose flag starts enabled.
InitSeq ==
    /\ Init
    /\ isAE = TRUE
    /\ embeddings = TRUE

SpecSeq == InitSeq /\ [][Next]_vars

\* One loss object, constructed with a margin and a reduction, applied once.
InitForward ==
    /\ isAE = TRUE
    /\ embeddings = TRUE
    /\ label_type = "none"
    /\ override = [l \in Losses |-> FALSE]
    /\ TrainIdle
    /\ dx \in Tensors
    /\ dgz \in {t \in Tensors : Len(t) = Len(dx)}
    /\ margin \in 0..MaxMargin
    /\ reduction \in Reductions
    /\ fwdOut = Unset

NextForward == ForwardCall

SpecForward == InitForward /\ [][NextForward]_vars

----------------------------------------------------------------------------
(* Properties                                                              *)

Wrapping == {"gen", "dis"}

\* A default (no override) call of a wrapping loss on an autoencoding
\* discriminator.
WrappedCall == cur \in Wrapping /\ ~override[cur] /\ isAE

IsPrefix(s, t) == Len(s) <= Len(t) /\ \A i \in 1..Len(s) : s[i] = t[i]

OptimizerOrForward == {"zero_grad", "step", "gen_forward", "disc_forward"}

C2_FlagRestoredOnFailure ==
    (WrappedCall /\ pc = "idle" /\ outcome.kind = "raise")
        => embeddings = entryEmb

\* C3: with an override supplied, train_ops of each loss calls the override
\* exactly once with exactly the positional arguments it received itself, in
\* the same order, and returns the override's value.
C3_OverrideGetsSameArguments ==
    (cur \in Losses /\ override[cur] /\ pc = "idle" /\ outcome.kind # "none")
        => /\ ovCalls = 1
           /\ ovArgs = args
           /\ outcome = Returned(ovRet)

\* C4: a default pulling-away train_ops entered with a violated precondition
\* (discriminator not autoencoding, generator label_type not "none", or
\* embeddings disabled) ends by raising the error of the first violated
\* precondition, never enters its body, and runs neither zero_grad, step nor
\* a generator or discriminator forward.
C4_PTPreconditionsFailFast ==
    (cur = "pt" /\ ~override["pt"]
        /\ (~isAE \/ label_type # "none" \/ ~entryEmb))
        => /\ pc \in {"check", "idle"}
           /\ \A i \in 1..Len(trace) : trace[i] \notin OptimizerOrForward
           /\ pc = "idle" =>
                /\ outcome.kind = "raise"
                /\ outcome.error =
                     IF ~isAE THEN ErrAutoEncoder
                     ELSE IF label_type # "none" THEN ErrLabels
                     ELSE ErrEmbeddings

C4_Witness ==
    /\ cur = "pt" /\ ~override["pt"]
    /\ isAE /\ label_type = "none" /\ ~entryEmb
    /\ pc = "idle" /\ outcome = Raised(ErrEmbeddings)

\* C5: with an override supplied, a train_ops call of any of the three losses
\* never writes discriminator.embeddings, binds no snapshot, performs no step
\* of a base train-step or of the pulling-away body, and raises no
\* precondition error, whatever the discriminator, generator and flag are.
C5_OverrideBypassesDefaults ==
    (cur \in Losses /\ override[cur])
        => /\ pc \in {"override", "idle"}
           /\ setattrs = 0
           /\ embeddings = entryEmb
           /\ orig_value = <<>>
           /\ trace = <<>>
           /\ outcome.kind # "raise"

C5_Witness ==
    /\ cur = "pt" /\ override["pt"]
    /\ ~isAE /\ label_type = "required" /\ ~embeddings
    /\ pc = "idle" /\ outcome.kind = "return" /\ ovCalls = 1

\* C6: in a default train_ops of the generator or discriminator loss on an
\* autoencoding discriminator, discriminator.embeddings is False from before
\* the first step of the delegated train-step until after its last one, and
\* the snapshot orig_value holds the value the flag had on entry.
C6_FlagDisabledDuringBase ==
    (WrappedCall /\ pc \in {"base", "restore"})
        => /\ embeddings = FALSE
           /\ orig_value = <<entryEmb>>

C6_Witness ==
    /\ WrappedCall /\ cur = "gen"
    /\ pc = "base" /\ ip = Len(GenBaseSteps) + 1
    /\ entryEmb = TRUE /\ embeddings = FALSE

HingeAt(i) == IF margin - dgz[i] > 0 THEN margin - dgz[i] ELSE 0
LossAt(i) == dx[i] + HingeAt(i)

RECURSIVE LossUpTo(_)
LossUpTo(n) == IF n = 0 THEN 0 ELSE LossAt(n) + LossUpTo(n - 1)

RECURSIVE RealUpTo(_)
RealUpTo(n) == IF n = 0 THEN 0 ELSE dx[n] + RealUpTo(n - 1)

\* C8: forward(dx, dgz) is the reduction, by the reduction and margin of the
\* loss object, of dx_i + max(0, margin - dgz_i): one value per element for
\* "none", their sum for "sum", their mean (as an exact fraction) for "mean";
\* when every dgz_i >= margin the mean-reduced loss is mean(dx).
C8_ForwardIsReducedMarginLoss ==
    fwdOut # Unset =>
        LET n == Len(dx) IN
        /\ reduction = "none" =>
             /\ fwdOut.kind = "tensor"
             /\ Len(fwdOut.elems) = n
             /\ \A i \in 1..n : fwdOut.elems[i] = LossAt(i)
        /\ reduction = "sum" =>
             /\ fwdOut.kind = "scalar"
             /\ fwdOut.den = 1
             /\ fwdOut.num = LossUpTo(n)
        /\ reduction = "mean" =>
             /\ fwdOut.kind = "scalar"
             /\ fwdOut.den > 0
             /\ fwdOut.num * n = LossUpTo(n) * fwdOut.den
             /\ (\A i \in 1..n : dgz[i] >= margin)
                   => fwdOut.num * n = RealUpTo(n) * fwdOut.den

C8_Witness ==
    /\ fwdOut # Unset
    /\ reduction = "mean" /\ margin = 2
    /\ dx = <<2, 1>> /\ dgz = <<2, 2>>
    /\ fwdOut.num = 3 /\ fwdOut.den = 2

ExpectedPT ==
    <<"checks", "noise", "zero_grad", "gen_forward", "disc_forward",
      "forward", "backward", "step", "return">>

\* C9: a default pulling-away train_ops performs, in this order and each at
\* most once, its checks, noise sampling, zero_grad, generator forward,
\* discriminator forward, forward, backward, optimizer step and return; a call
\* that returns has performed all of them, had all three preconditions on
\* entry, and the call never writes discriminator.embeddings.
C9_PTStepOrder ==
    (cur = "pt" /\ ~override["pt"])
        => /\ IsPrefix(trace, ExpectedPT)
           /\ setattrs = 0
           /\ embeddings = entryEmb
           /\ outcome.kind = "return" =>
                /\ trace = ExpectedPT
                /\ isAE /\ label_type = "none" /\ entryEmb

C9_Witness ==
    /\ cur = "pt" /\ ~override["pt"]
    /\ pc = "idle" /\ outcome.kind = "return"
    /\ trace = ExpectedPT

\* In a run on an autoencoding discriminator whose flag started enabled: the
\* flag between calls and at every pulling-away turn, and what a default
\* pulling-away call does once a delegated train-step has raised; err is the
\* error such a call ends with.
SequenceProperty(err) ==
    /\ (~baseRaised /\ pc = "idle") => embeddings = TRUE
    /\ (~baseRaised /\ cur = "pt" /\ ~override["pt"] /\ pc = "check")
          => embeddings = TRUE
    /\ (baseRaised /\ pc = "idle") => embeddings = FALSE
    /\ (baseRaised /\ cur = "pt" /\ ~override["pt"])
          => /\ pc \in {"check", "idle"}
             /\ \A i \in 1..Len(trace) : trace[i] \notin OptimizerOrForward
             /\ pc = "idle" => outcome = Raised(err)

\* C10 (as stated): once a delegated train-step has raised, the flag is left
\* disabled and every later default pulling-away call raises the
\* embeddings-required error without invoking the optimizer; while none has
\* raised, the flag is enabled at every pulling-away turn.
C10_StuckFlagBreaksPT == SequenceProperty(ErrEmbeddings)

\* C10 (amended): as stated, except that the later pulling-away calls raise
\* the embeddings-required error when the generator's label_type is "none" and
\* the labels error, whose check comes first, when it is not.
C10_StuckFlagFailsPT ==
    SequenceProperty(IF label_type = "none" THEN ErrEmbeddings ELSE ErrLabels)

C10_Witness ==
    /\ baseRaised /\ cur = "pt" /\ ~override["pt"]
    /\ pc = "idle" /\ outcome = Raised(ErrEmbeddings)
    /\ embeddings = FALSE

====
